---- MODULE Spec2Model ----
(***************************************************************************)
(* React Hooks Studio: the render-count registry (RenderCounter /          *)
(* InlineRenderCounter), the timer demo of the useEffect playground, the   *)
(* ThemeProvider with its persistence effect, and the context accessor     *)
(* hooks.                                                                  *)
(*                                                                         *)
(* Host framework semantics assumed (React 18 concurrent root, as the      *)
(* entry point uses createRoot):                                           *)
(*  - one evaluation of a component function is one "render";              *)
(*  - useId gives a mounting unit a fresh identity from a global counter   *)
(*    and returns the same identity on every later render of that unit;    *)
(*  - state updates queued by a handler are processed in order at the      *)
(*    next render; a discrete event (click) is rendered and its passive    *)
(*    effects are flushed before any other task (timer callback) runs;     *)
(*  - passive effects of other renders are flushed later, and always       *)
(*    before the next render starts.                                       *)
(***************************************************************************)
EXTENDS Integers, Sequences, FiniteSets, TLC

(* ------------------------------- bounds -------------------------------- *)
NumUnits == 2
MaxIds == 4
MaxRenders == 3
MaxHandles == 3
MaxSeconds == 5
MaxCalls == 2
MaxPasses == 2
MaxHistory == 3
MaxParentRenders == 4
MaxRefRenders == 6
MaxRefClicks == 2
MaxTodoId == 4

(* ------------------------------ registry ------------------------------- *)
VARIABLES
  renderCounts,   \* Map<string, number>: a function whose DOMAIN is the key set
  unitId,         \* the identity useId gives each mounted unit (NoId: not mounted)
  nextId,         \* the host's global client id counter behind useId
  observed        \* history: per identity, the values observe returned, in order

Units == 1 .. NumUnits
Ids == 1 .. MaxIds
NoId == 0
Undefined == -1

\* renderCounts.get(id)
MapGet(m, id) == IF id \in DOMAIN m THEN m[id] ELSE Undefined

\* a mutation: set that drops every other key
MapSetOnly(m, id, v) == [k \in {id} |-> v]

\* renderCounts.set(id, v)
MapSet(m, id, v) == [k \in (DOMAIN m) \cup {id} |-> IF k = id THEN v ELSE m[k]]

\* a mutation: the count is read but not incremented
CurrentCountNoIncrement(m, id) == IF MapGet(m, id) = Undefined THEN 0 ELSE MapGet(m, id)

\* const currentCount = (renderCounts.get(id) ?? 0) + 1
CurrentCount(m, id) == (IF MapGet(m, id) = Undefined THEN 0 ELSE MapGet(m, id)) + 1

\* a mutation: the stored count is doubled instead of incremented
ObserveDoubling(m, id) == MapSet(m, id, 2 * CurrentCount(m, id))

\* renderCounts.set(id, currentCount): the registry after one observe
Observe(m, id) == MapSet(m, id, CurrentCount(m, id))

\* The body of RenderCounter / InlineRenderCounter evaluated with identity id:
\* the registry is updated and currentCount is what the unit displays.
RenderBody(id) ==
  /\ renderCounts' = Observe(renderCounts, id)
  /\ observed' = [observed EXCEPT ![id] = Append(@, CurrentCount(renderCounts, id))]

\* useId on mount: a fresh identity from the global counter
UseIdMount == nextId

registryVars == <<renderCounts, unitId, nextId, observed>>

(* ------------------------------ timer demo ----------------------------- *)
VARIABLES
  timerMounted,   \* UseEffectPlayground is in the tree
  seconds,        \* useState(0)
  isRunning,      \* useState(false)
  intervals,      \* the interval handles the browser holds live
  nextHandle,     \* the handle the next setInterval returns
  effectInterval, \* `interval` captured by the cleanup of the last timer effect
  cleanupPending, \* the unit was removed and its effect cleanup has not run yet
  lastClick,      \* history: "none", "start", "stop" or "reset" since mount
  secondsAtStop,  \* history: seconds when Stop was last pressed
  startedAt,      \* history: seconds when Start was last pressed
  ticksInRun,     \* history: interval callbacks between the last Start and the Stop after it
  resetFrom       \* history: the running flag and the seconds when Reset was last pressed

NullHandle == 0
Handles == 1 .. MaxHandles

\* a mutation: the cleanup forgets clearInterval
TimerCleanupLeak(interval, live) == live

\* return () => { if (interval) clearInterval(interval) }
TimerCleanup(interval, live) ==
  IF interval # NullHandle THEN live \ {interval} ELSE live

\* a mutation: the interval is scheduled whatever the flag says
TimerEffectAlways(running, handle, live) ==
  [interval |-> handle, live |-> live \cup {handle}]

\* let interval = null; if (isRunning) interval = setInterval(...)
\* handle: what setInterval would return; the result is the captured
\* `interval` and the live handles after the effect body.
TimerEffect(running, handle, live) ==
  IF running
    THEN [interval |-> handle, live |-> live \cup {handle}]
    ELSE [interval |-> NullHandle, live |-> live]

\* The timer effect has dependency [isRunning]: when the flag changed, the
\* old cleanup runs, then the effect body runs with the new flag.
RerunTimerEffect(running) ==
  LET r == TimerEffect(running, nextHandle, TimerCleanup(effectInterval, intervals))
  IN /\ intervals' = r.live
     /\ effectInterval' = r.interval
     /\ nextHandle' = IF r.interval # NullHandle THEN nextHandle + 1 ELSE nextHandle

\* String(n) for n >= 0
RECURSIVE NumberToString(_)
NumberToString(n) ==
  LET d == <<"0", "1", "2", "3", "4", "5", "6", "7", "8", "9">>[(n % 10) + 1]
  IN IF n < 10 THEN d ELSE NumberToString(n \div 10) \o d

\* str.padStart(len, fill) with a one-character fill
RECURSIVE PadStart(_, _, _)
PadStart(str, len, fill) ==
  IF Len(str) >= len THEN str ELSE PadStart(fill \o str, len, fill)

\* a mutation: the display without the zero padding
TimerDisplayUnpadded(s) == NumberToString(s \div 60) \o ":" \o NumberToString(s % 60)

\* {String(Math.floor(seconds / 60)).padStart(2, '0')}:{String(seconds % 60).padStart(2, '0')}
TimerDisplay(s) ==
  PadStart(NumberToString(s \div 60), 2, "0") \o ":" \o PadStart(NumberToString(s % 60), 2, "0")

timerVars == <<timerMounted, seconds, isRunning, intervals, nextHandle,
               effectInterval, cleanupPending, lastClick, secondsAtStop,
               startedAt, ticksInRun, resetFrom>>

(* -------------------------------- theme -------------------------------- *)
VARIABLES
  theme,           \* useState<Theme>(getInitialTheme)
  storage,         \* localStorage.getItem(THEME_STORAGE_KEY), Absent for null
  prefersDark,     \* matchMedia('(prefers-color-scheme: dark)').matches
  rootClasses,     \* of 'light' and 'dark', those in documentElement.classList
  effectDue,       \* the [theme] effect of the last commit has not run yet
  bootStored,      \* history: the stored value getInitialTheme read at the last start
  bootPrefersDark, \* history: the OS preference at the last start
  initialTheme,    \* history: what getInitialTheme returned at the last start
  lastBatch,       \* history: the calls of the last handler, << >> after any other theme event
  themeBefore,     \* history: the theme when that handler began
  themeAtExit,     \* history: the theme when the page was last left with no effect
                   \* pending, "none" before a restart or when one was pending
  listening,       \* handleChange is attached to the media query (the second effect ran)
  everPersisted,   \* history: the persistence effect has run at least once
  lastChange       \* history: the last change of the OS preference: what was stored
                   \* then, whether handleChange was attached, the new preference

Absent == "<null>"
Themes == {"light", "dark"}
StoredValues == {Absent, "light", "dark", "", "system"}
CallNames == {"toggleTheme", "setTheme:light", "setTheme:dark"}
CallSeqs == UNION {[1 .. n -> CallNames] : n \in 1 .. MaxCalls}

\* a mutation: any stored string is taken for a theme
GetInitialThemeUnchecked(hasWindow, stored, prefers) ==
  IF ~hasWindow THEN "light"
  ELSE IF stored # Absent THEN stored
  ELSE IF prefers THEN "dark" ELSE "light"

\* a mutation: the stored value is not consulted
GetInitialThemeFromSystem(hasWindow, stored, prefers) ==
  IF ~hasWindow THEN "light"
  ELSE IF prefers THEN "dark" ELSE "light"

\* getInitialTheme
GetInitialTheme(hasWindow, stored, prefers) ==
  IF ~hasWindow THEN "light"
  ELSE IF stored = "light" \/ stored = "dark" THEN stored
  ELSE IF prefers THEN "dark" ELSE "light"

\* lastChange before any change of the OS preference
NoChange == [seen |-> FALSE, stored |-> Absent, attached |-> FALSE, matches |-> FALSE]

\* a mutation: only a missing key counts
FalsyAbsentOnly(stored) == stored = Absent

\* !storedTheme
Falsy(stored) == stored = Absent \/ stored = ""

\* (prev) => (prev === 'light' ? 'dark' : 'light')
ToggleUpdater(prev) == IF prev = "light" THEN "dark" ELSE "light"

\* a mutation: the toggle computed from the theme of the render that made the callback
ToggleThemeStale(rendered) == [kind |-> "value", value |-> ToggleUpdater(rendered)]

\* toggleTheme: the update it queues; rendered is the theme of the render
\* the callback closes over, which the updater form does not read
ToggleTheme(rendered) == [kind |-> "updater", value |-> "toggle"]

\* setTheme(newTheme): the update it queues
SetTheme(newTheme) == [kind |-> "value", value |-> newTheme]

\* The update a call queues.
QueuedUpdate(call, rendered) ==
  CASE call = "toggleTheme" -> ToggleTheme(rendered)
    [] call = "setTheme:light" -> SetTheme("light")
    [] call = "setTheme:dark" -> SetTheme("dark")

\* useState's queue at the next render: updates apply in order, an updater
\* to the state the updates before it left.
RECURSIVE ProcessQueue(_, _)
ProcessQueue(state, queue) ==
  IF queue = << >> THEN state
  ELSE ProcessQueue(IF Head(queue).kind = "updater" THEN ToggleUpdater(state)
                                                     ELSE Head(queue).value,
                    Tail(queue))

\* a mutation: the persistence effect with an empty dependency array
ThemeDepsChangedNever(old, new) == FALSE

\* the dependency array [theme] of the persistence effect
ThemeDepsChanged(old, new) == old # new

themeVars == <<theme, storage, prefersDark, rootClasses, effectDue, bootStored,
               bootPrefersDark, initialTheme, lastBatch, themeBefore, themeAtExit,
               listening, everPersisted, lastChange>>

(* --------------------------- context accessors ------------------------- *)
VARIABLES
  language,       \* SettingsProvider: useState('English')
  notifications,  \* SettingsProvider: useState(true)
  lastCall,       \* the last accessor call of a consumer: [hook, inside, threw, value]
  outcomes        \* history: every <<hook, inside, threw>> seen

Languages == {"English", "Spanish", "French", "German", "Japanese"}
Hooks == {"useTheme", "useExampleUser", "useSettings"}

ExampleUser == [name |-> "Jane Doe", email |-> "jane@reacthooksstudio.dev", role |-> "admin"]

\* The value each provider passes to its Context.Provider.
ProvidedValue(hook, th, lang, notif) ==
  CASE hook = "useTheme" ->
         [tag |-> "object",
          val |-> [theme |-> th, toggleTheme |-> "toggleTheme", setTheme |-> "setTheme"]]
    [] hook = "useExampleUser" ->
         [tag |-> "object", val |-> ExampleUser]
    [] hook = "useSettings" ->
         [tag |-> "object",
          val |-> [language |-> lang, notifications |-> notif,
                   setLanguage |-> "setLanguage",
                   toggleNotifications |-> "toggleNotifications"]]

\* createContext(undefined) for the theme, createContext(null) for the others
DefaultValue(hook) ==
  IF hook = "useTheme" THEN [tag |-> "undefined", val |-> << >>]
                       ELSE [tag |-> "null", val |-> << >>]

\* useContext: the value of the nearest provider above, else the default
UseContext(hook, inside, th, lang, notif) ==
  IF inside THEN ProvidedValue(hook, th, lang, notif) ELSE DefaultValue(hook)

\* a mutation: the accessor hands on whatever useContext gave
AccessorUnguarded(hook, context) == [threw |-> FALSE, value |-> context]

\* useTheme: if (context === undefined) throw; useExampleUser, useSettings:
\* if (!context) throw; otherwise return context
Accessor(hook, context) ==
  IF \/ hook = "useTheme" /\ context.tag = "undefined"
     \/ hook # "useTheme" /\ context.tag \in {"undefined", "null"}
    THEN [threw |-> TRUE, value |-> DefaultValue(hook)]
    ELSE [threw |-> FALSE, value |-> context]

\* A consumer at a place inside or outside the provider renders and calls hook.
CallResult(hook, inside, th, lang, notif) ==
  LET r == Accessor(hook, UseContext(hook, inside, th, lang, notif))
  IN [hook |-> hook, inside |-> inside, threw |-> r.threw, value |-> r.value]

NoCall == [hook |-> "none", inside |-> FALSE, threw |-> FALSE,
           value |-> [tag |-> "undefined", val |-> << >>]]

\* A provider re-rendered with a new value: the consumer that rendered
\* successfully under it renders again.
Rerendered(call, th, lang, notif) ==
  IF call.hook \in Hooks /\ call.inside /\ ~call.threw
    THEN CallResult(call.hook, call.inside, th, lang, notif)
    ELSE call

contextVars == <<language, notifications, lastCall, outcomes>>

(* ------------------------- entry point and router ---------------------- *)
VARIABLES
  appState,       \* "loading", "mounted" (createRoot(...).render was reached) or "failed"
  rootElement,    \* document.getElementById('root') is not null
  strictMode,     \* what <StrictMode> does to a render in this build, see StrictModes
  displayed,      \* per unit, the currentCount of the evaluation whose output is shown
  passes,         \* history: per unit, its renders since it was mounted
  pendingRender,  \* the units for which a re-render is scheduled
  history,        \* the session history, a sequence of paths; the location is its last entry
  page,           \* the element the router shows in the Outlet of Layout
  lastNav         \* history: [requested, redirected] of the last navigation

\* "off": a production build, one evaluation per render.  In a development
\* build the body is evaluated twice per render; on the first render the
\* second evaluation runs useId again ("mount-fresh-id", React 18) or keeps
\* the identity of the first ("mount-same-id", React 19).
StrictModes == {"off", "mount-fresh-id", "mount-same-id"}

\* The identities the evaluations of a first render use, in order.
MountEvaluations(mode, fresh) ==
  CASE mode = "off" -> <<fresh>>
    [] mode = "mount-fresh-id" -> <<fresh, fresh + 1>>
    [] mode = "mount-same-id" -> <<fresh, fresh>>

\* The identities the evaluations of a later render use, in order.
UpdateEvaluations(mode, id) ==
  IF mode = "off" THEN <<id>> ELSE <<id, id>>

\* The registry after the body ran once for each identity of ids, in order.
RECURSIVE ObserveAll(_, _)
ObserveAll(m, ids) ==
  IF ids = << >> THEN m ELSE ObserveAll(Observe(m, Head(ids)), Tail(ids))

\* The history of returned values after those evaluations.
RECURSIVE ObservedAll(_, _, _)
ObservedAll(obs, m, ids) ==
  IF ids = << >> THEN obs
  ELSE ObservedAll([obs EXCEPT ![Head(ids)] = Append(@, CurrentCount(m, Head(ids)))],
                   Observe(m, Head(ids)), Tail(ids))

\* {currentCount} of the last evaluation, the one whose output is committed
DisplayedCount(m, ids) ==
  CurrentCount(ObserveAll(m, SubSeq(ids, 1, Len(ids) - 1)), ids[Len(ids)])

\* a mutation: the counter kept in component state, set while rendering
ScheduledByBodySetState(u) == {u}

\* The re-renders the body of a counter schedules: it calls no state setter.
ScheduledByBody(u) == {}

\* One render of unit u whose evaluations use the identities ids.
RenderPass(u, ids) ==
  /\ renderCounts' = ObserveAll(renderCounts, ids)
  /\ observed' = ObservedAll(observed, renderCounts, ids)
  /\ displayed' = [displayed EXCEPT ![u] = DisplayedCount(renderCounts, ids)]
  /\ pendingRender' = (pendingRender \ {u}) \cup ScheduledByBody(u)

Home == << >>
HookPaths ==
  {<<"hooks", "use-state">>, <<"hooks", "use-effect">>, <<"hooks", "use-reducer">>,
   <<"hooks", "use-ref">>, <<"hooks", "use-memo">>, <<"hooks", "use-callback">>,
   <<"hooks", "use-context">>}
DeclaredPaths == {Home} \cup HookPaths
UnknownPaths ==
  {<<"unknown">>, <<"hooks">>, <<"hooks", "use-nothing">>, <<"hooks", "use-state", "extra">>}
Paths == DeclaredPaths \cup UnknownPaths

\* The children of the '/' route: the element of each path pattern.
RouteElement(segments) ==
  CASE segments = <<"hooks", "use-state">> -> "UseStatePlayground"
    [] segments = <<"hooks", "use-effect">> -> "UseEffectPlayground"
    [] segments = <<"hooks", "use-reducer">> -> "UseReducerPlayground"
    [] segments = <<"hooks", "use-ref">> -> "UseRefPlayground"
    [] segments = <<"hooks", "use-memo">> -> "UseMemoPlayground"
    [] segments = <<"hooks", "use-callback">> -> "UseCallbackPlayground"
    [] segments = <<"hooks", "use-context">> -> "UseContextPlayground"

\* a mutation: the route table without the '*' route
MatchRouteNoSplat(path) ==
  IF path = Home THEN [kind |-> "element", element |-> "HomePage", to |-> Home, replace |-> FALSE]
  ELSE IF path \in HookPaths
    THEN [kind |-> "element", element |-> RouteElement(path), to |-> Home, replace |-> FALSE]
  ELSE [kind |-> "element", element |-> "none", to |-> Home, replace |-> FALSE]

\* The route the router picks for a path: the index route for '/', the
\* route whose pattern is the whole path, else the '*' route, whose element
\* is <Navigate to="/" replace />.
MatchRoute(path) ==
  IF path = Home THEN [kind |-> "element", element |-> "HomePage", to |-> Home, replace |-> FALSE]
  ELSE IF path \in HookPaths
    THEN [kind |-> "element", element |-> RouteElement(path), to |-> Home, replace |-> FALSE]
  ELSE [kind |-> "navigate", element |-> "Navigate", to |-> Home, replace |-> TRUE]

\* The history once the element matched for its last entry has rendered:
\* a Navigate element replaces that entry (replace) or adds one.
Settle(h) ==
  LET m == MatchRoute(h[Len(h)])
  IN IF m.kind = "navigate"
       THEN IF m.replace THEN [h EXCEPT ![Len(h)] = m.to] ELSE Append(h, m.to)
       ELSE h

\* {children ?? <Outlet />} of Layout, used as <Layout>{null}</Layout>:
\* the Outlet shows the element of the matched child route.
OutletPage(h) == MatchRoute(h[Len(h)]).element

appVars == <<appState, rootElement, strictMode, displayed, passes, pendingRender,
             history, page, lastNav>>

(* -------------------------- useCallback playground --------------------- *)
VARIABLES
  cbMounted,      \* UseCallbackPlayground is in the tree
  cbCount,        \* const [count, setCount] = useState(0)
  cbName,         \* const [name, setName] = useState('')
  cbItems,        \* const [items, setItems] = useState([...]): a sequence of [id, text]
  cbNextId,       \* const [nextId, setNextId] = useState(4)
  cbRenders,      \* history: the renders of UseCallbackPlayground since it was mounted
  cbHandlers,     \* per handler, the function of the last render and the deps kept with it
  buttons,        \* per MemoizedButton: mounted, its last props, the count it shows
  listItems       \* per key, the ListItem: mounted, its last props, the count it shows

Buttons == {"bad", "good", "greet"}
Names == {"", "a", "ab"}
ItemIds == 1 .. (3 + MaxParentRenders)
InitialItems ==
  << [id |-> 1, text |-> <<"Learn useCallback">>],
     [id |-> 2, text |-> <<"Understand memoization">>],
     [id |-> 3, text |-> <<"Build great apps">>] >>

\* { id: nextId, text: `New item ${nextId}` }
NewItem(id) == [id |-> id, text |-> <<"New item ", id>>]

\* prev.filter((item) => item.id !== id)
FilterOut(its, id) == SelectSeq(its, LAMBDA item : item.id # id)

ItemKeys(its) == {its[k].id : k \in 1 .. Len(its)}
ItemOf(its, id) == CHOOSE item \in {its[k] : k \in 1 .. Len(its)} : item.id = id

\* A function is named by the render that created it; fn = 0: no render yet.
NoHandler == [fn |-> 0, deps |-> << >>]

\* a mutation: the handler declared without useCallback
UseCallbackFresh(prev, fresh, deps) == [fn |-> fresh, deps |-> deps]

\* useCallback(fn, deps): the function of the earlier render while deps are
\* the same, else the function this render created.
UseCallback(prev, fresh, deps) ==
  IF prev.fn # 0 /\ prev.deps = deps THEN prev ELSE [fn |-> fresh, deps |-> deps]

\* The handlers render r declares, with the state (n, nid) it reads.
Handlers(prev, r, n, nid) ==
  [bad |-> [fn |-> r, deps |-> << >>],
   good |-> UseCallback(prev.good, r, << >>),
   greet |-> UseCallback(prev.greet, r, <<n>>),
   del |-> UseCallback(prev.del, r, << >>),
   add |-> UseCallback(prev.add, r, <<nid>>)]

\* <MemoizedButton onClick={...} variant=...>label</MemoizedButton>
ButtonProps(b, hs) ==
  [onClick |-> hs[b].fn,
   children |-> CASE b = "bad" -> "Increment (Bad)"
                  [] b = "good" -> "Increment (Good)"
                  [] b = "greet" -> "Greet",
   variant |-> IF b = "bad" THEN "secondary" ELSE "undefined"]

\* <ListItem key={item.id} id={item.id} text={item.text} onDelete={handleDelete} />
ItemProps(item, hs) == [id |-> item.id, text |-> item.text, onDelete |-> hs.del.fn]

\* a mutation: the component not wrapped in memo
PropsEqualNever(a, b) == FALSE

\* memo's comparison: every prop is the same value or the same reference
PropsEqual(a, b) == DOMAIN a = DOMAIN b /\ \A k \in DOMAIN a : a[k] = b[k]

\* What the InlineRenderCounter of a child shows after the child's first
\* render, and after a later render when it showed s before.
ShownAtMount(mode) == DisplayedCount(<< >>, MountEvaluations(mode, 1))
ShownAfterRender(mode, s) == DisplayedCount([k \in {1} |-> s], UpdateEvaluations(mode, 1))

NotMounted(props) == [mounted |-> FALSE, props |-> props, shown |-> 0, atMount |-> 0]
NoButton == NotMounted([onClick |-> 0, children |-> "", variant |-> ""])
NoItem == NotMounted([id |-> 0, text |-> << >>, onDelete |-> 0])

\* The parent renders a memo child with props: the child mounts, is skipped
\* when its props compare equal, or renders again.
RenderChild(child, props, mode) ==
  IF ~child.mounted
    THEN [mounted |-> TRUE, props |-> props,
          shown |-> ShownAtMount(mode), atMount |-> ShownAtMount(mode)]
  ELSE IF PropsEqual(child.props, props) THEN child
  ELSE [child EXCEPT !.props = props, !.shown = ShownAfterRender(mode, @)]

\* One render of UseCallbackPlayground with state (c, n, its, nid).
CallbackRender(c, n, its, nid) ==
  LET r == cbRenders + 1
      hs == Handlers(cbHandlers, r, n, nid)
  IN /\ cbCount' = c
     /\ cbName' = n
     /\ cbItems' = its
     /\ cbNextId' = nid
     /\ cbRenders' = r
     /\ cbHandlers' = hs
     /\ buttons' = [b \in Buttons |-> RenderChild(buttons[b], ButtonProps(b, hs), strictMode)]
     /\ listItems' = [i \in ItemIds |->
                        IF i \in ItemKeys(its)
                          THEN RenderChild(listItems[i], ItemProps(ItemOf(its, i), hs), strictMode)
                          ELSE NoItem]

callbackVars == <<cbMounted, cbCount, cbName, cbItems, cbNextId, cbRenders, cbHandlers,
                  buttons, listItems>>

(* ---------------------------- useMemo playground ----------------------- *)
VARIABLES
  mmMounted,      \* UseMemoPlayground is in the tree
  mmCount,        \* const [count, setCount] = useState(0)
  mmMultiplier,   \* const [multiplier, setMultiplier] = useState(1)
  mmFilter,       \* const [filter, setFilter] = useState('')
  mmShowExpensive,\* const [showExpensive, setShowExpensive] = useState(false)
  mmRenders,      \* history: the renders of UseMemoPlayground since it was mounted
  mmQuiet,        \* history: those of them, after the first, that left count as it was
  memoizedData,   \* the useMemo cell: the object (named by the render that made it), its deps
  nonMemoizedData,\* the object literal of the last render
  childWithMemo,  \* ChildWithMemo: mounted, its last props, the count it shows
  childWithoutMemo

Filters == {"", "a", "an"}
Multipliers == {1, 2}

NoMemo == [ref |-> 0, value |-> 0, deps |-> << >>]

\* useMemo(() => value, deps): the object of the earlier render while deps
\* are the same, else the one this render computes.
UseMemo(prev, fresh, value, deps) ==
  IF prev.ref # 0 /\ prev.deps = deps THEN prev
  ELSE [ref |-> fresh, value |-> value, deps |-> deps]

NoChild == NotMounted([data |-> 0])

\* The parent renders a child that is a plain function component: the child
\* renders whenever its parent does, whatever its props are.
RenderPlainChild(child, props, mode) ==
  IF ~child.mounted
    THEN [mounted |-> TRUE, props |-> props,
          shown |-> ShownAtMount(mode), atMount |-> ShownAtMount(mode)]
  ELSE [child EXCEPT !.props = props, !.shown = ShownAfterRender(mode, @)]

\* One render of UseMemoPlayground with state (c, m, f, s).
MemoRender(c, m, f, s) ==
  LET r == mmRenders + 1
      md == UseMemo(memoizedData, r, c, <<c>>)
      nd == [ref |-> r, value |-> c, deps |-> << >>]
  IN /\ mmCount' = c
     /\ mmMultiplier' = m
     /\ mmFilter' = f
     /\ mmShowExpensive' = s
     /\ mmRenders' = r
     /\ mmQuiet' = IF mmRenders > 0 /\ c = mmCount THEN mmQuiet + 1 ELSE mmQuiet
     /\ memoizedData' = md
     /\ nonMemoizedData' = nd
     /\ childWithMemo' = RenderPlainChild(childWithMemo, [data |-> md.ref], strictMode)
     /\ childWithoutMemo' = RenderPlainChild(childWithoutMemo, [data |-> nd.ref], strictMode)

memoVars == <<mmMounted, mmCount, mmMultiplier, mmFilter, mmShowExpensive, mmRenders,
              mmQuiet, memoizedData, nonMemoizedData, childWithMemo, childWithoutMemo>>

(* ----------------------------- useRef playground ----------------------- *)
VARIABLES
  rfMounted,          \* UseRefPlayground is in the tree
  rfCount,            \* const [count, setCount] = useState(0)
  previousValue,      \* useState<number | undefined>(undefined): << >> is undefined, <<v>> is v
  displayedRefValue,  \* const [displayedRefValue, setDisplayedRefValue] = useState(0)
  clickCount,         \* clickCount.current
  rfRenders,          \* history: the renders of UseRefPlayground since it was mounted
  rfEffectDue,        \* the effect with deps [count] has not run yet for the last render
  rfShown,            \* what the last render put under 'Current', 'Previous' and 'Displayed'
  rfPrior             \* history: << >> before any change of count, else <<v>>, the value
                      \* count had before its last change

\* A number as JSX text
TextOf(n) == IF n < 0 THEN "-" \o NumberToString(0 - n) ELSE NumberToString(n)

\* {previousValue ?? '-'}
PreviousText(pv) == IF pv = << >> THEN "-" ELSE TextOf(pv[1])

\* One render of UseRefPlayground with state (c, pv, d); the effect with
\* deps [count] is due after the first render and after a render that
\* changed count.
RefRender(c, pv, d) ==
  /\ rfCount' = c
  /\ previousValue' = pv
  /\ displayedRefValue' = d
  /\ rfRenders' = rfRenders + 1
  /\ rfShown' = [current |-> TextOf(c), previous |-> PreviousText(pv), displayed |-> d]
  /\ rfEffectDue' = (rfEffectDue \/ rfRenders = 0 \/ c # rfCount)

refVars == <<rfMounted, rfCount, previousValue, displayedRefValue, clickCount, rfRenders,
             rfEffectDue, rfShown, rfPrior>>

(* ------------------------------ todo reducer --------------------------- *)
VARIABLES
  todoState,      \* the state of useReducer(todoReducer, todoInitialState)
  usedIds,        \* history: every id a todo has had
  lastAction      \* history: the last action dispatched

TodoTexts == {"a", "b"}
TodoIds == 0 .. (MaxTodoId + 1)
TodoActions ==
  [type : {"ADD"}, payload : TodoTexts] \cup
  [type : {"TOGGLE", "DELETE"}, payload : TodoIds] \cup
  [type : {"CLEAR_COMPLETED", "UNKNOWN"}]

todoInitialState == [todos |-> << >>, nextId |-> 1]

\* a mutation: ADD takes the id from the length of the list
todoReducerIdFromLength(state, action) ==
  CASE action.type = "ADD" ->
         [todos |-> Append(state.todos,
                           [id |-> Len(state.todos) + 1, text |-> action.payload,
                            completed |-> FALSE]),
          nextId |-> state.nextId + 1]
    [] action.type = "TOGGLE" ->
         [state EXCEPT !.todos =
            [k \in 1 .. Len(state.todos) |->
               IF state.todos[k].id = action.payload
                 THEN [state.todos[k] EXCEPT !.completed = ~@]
                 ELSE state.todos[k]]]
    [] action.type = "DELETE" ->
         [state EXCEPT !.todos = SelectSeq(@, LAMBDA todo : todo.id # action.payload)]
    [] action.type = "CLEAR_COMPLETED" ->
         [state EXCEPT !.todos = SelectSeq(@, LAMBDA todo : ~todo.completed)]
    [] OTHER -> state

\* function todoReducer(state, action)
todoReducer(state, action) ==
  CASE action.type = "ADD" ->
         [todos |-> Append(state.todos,
                           [id |-> state.nextId, text |-> action.payload,
                            completed |-> FALSE]),
          nextId |-> state.nextId + 1]
    [] action.type = "TOGGLE" ->
         [state EXCEPT !.todos =
            [k \in 1 .. Len(state.todos) |->
               IF state.todos[k].id = action.payload
                 THEN [state.todos[k] EXCEPT !.completed = ~@]
                 ELSE state.todos[k]]]
    [] action.type = "DELETE" ->
         [state EXCEPT !.todos = SelectSeq(@, LAMBDA todo : todo.id # action.payload)]
    [] action.type = "CLEAR_COMPLETED" ->
         [state EXCEPT !.todos = SelectSeq(@, LAMBDA todo : ~todo.completed)]
    [] OTHER -> state

TodoIdsOf(state) == {state.todos[k].id : k \in 1 .. Len(state.todos)}

todoVars == <<todoState, usedIds, lastAction>>

playVars == <<callbackVars, memoVars, refVars, todoVars>>

pageVars == <<appVars, playVars>>

vars == <<registryVars, timerVars, themeVars, contextVars, pageVars>>

(* --------------------------- registry actions -------------------------- *)
\* First render of a unit: useId creates its identity, then the body runs.
Mount(u) ==
  /\ unitId[u] = NoId
  /\ nextId <= MaxIds
  /\ unitId' = [unitId EXCEPT ![u] = UseIdMount]
  /\ nextId' = nextId + 1
  /\ RenderBody(UseIdMount)
  /\ UNCHANGED <<timerVars, themeVars, contextVars, pageVars>>

\* A later render of a mounted unit: useId returns the stored identity.
Rerender(u) ==
  /\ unitId[u] # NoId
  /\ Len(observed[unitId[u]]) < MaxRenders
  /\ RenderBody(unitId[u])
  /\ UNCHANGED <<unitId, nextId>>
  /\ UNCHANGED <<timerVars, themeVars, contextVars, pageVars>>

\* a mutation: the entry of the unit is released when it leaves the tree
UnmountReleasing(u) ==
  /\ unitId[u] # NoId
  /\ unitId' = [unitId EXCEPT ![u] = NoId]
  /\ renderCounts' = [k \in (DOMAIN renderCounts) \ {unitId[u]} |-> renderCounts[k]]
  /\ UNCHANGED <<nextId, observed>>
  /\ UNCHANGED <<timerVars, themeVars, contextVars, pageVars>>

\* The unit leaves the tree; nothing touches the registry.
Unmount(u) ==
  /\ unitId[u] # NoId
  /\ unitId' = [unitId EXCEPT ![u] = NoId]
  /\ UNCHANGED <<renderCounts, nextId, observed>>
  /\ UNCHANGED <<timerVars, themeVars, contextVars, pageVars>>

(* ---------------------------- timer actions ---------------------------- *)
\* The page is shown: fresh state, and the timer effect runs with
\* isRunning = false.  A cleanup still pending from an earlier instance is
\* flushed first.
TimerMount ==
  /\ ~timerMounted
  /\ timerMounted' = TRUE
  /\ seconds' = 0
  /\ isRunning' = FALSE
  /\ LET flushed == IF cleanupPending THEN TimerCleanup(effectInterval, intervals)
                                      ELSE intervals
         r == TimerEffect(FALSE, nextHandle, flushed)
     IN /\ intervals' = r.live
        /\ effectInterval' = r.interval
  /\ cleanupPending' = FALSE
  /\ lastClick' = "none"
  /\ UNCHANGED <<nextHandle, secondsAtStop, startedAt, ticksInRun>>
  /\ UNCHANGED resetFrom
  /\ UNCHANGED <<registryVars, themeVars, contextVars, pageVars>>

\* onClick={() => setIsRunning((prev) => !prev)}, the render that follows
\* and the timer effect of that render.
ClickStartStop ==
  /\ timerMounted
  /\ isRunning \/ nextHandle <= MaxHandles
  /\ isRunning' = ~isRunning
  /\ RerunTimerEffect(~isRunning)
  /\ lastClick' = IF isRunning THEN "stop" ELSE "start"
  /\ secondsAtStop' = IF isRunning THEN seconds ELSE secondsAtStop
  /\ startedAt' = IF isRunning THEN startedAt ELSE seconds
  /\ ticksInRun' = IF isRunning THEN ticksInRun ELSE 0
  /\ UNCHANGED <<timerMounted, seconds, cleanupPending>>
  /\ UNCHANGED resetFrom
  /\ UNCHANGED <<registryVars, themeVars, contextVars, pageVars>>

\* The callback of a live interval: setSeconds((prev) => prev + 1).  On a
\* unit that is no longer mounted the state update is dropped.
Tick(h) ==
  /\ h \in intervals
  /\ timerMounted => seconds < MaxSeconds
  /\ seconds' = IF timerMounted THEN seconds + 1 ELSE seconds
  /\ ticksInRun' = IF timerMounted /\ lastClick = "start" THEN ticksInRun + 1 ELSE ticksInRun
  /\ UNCHANGED <<timerMounted, isRunning, intervals, nextHandle, effectInterval,
                 cleanupPending, lastClick, secondsAtStop, startedAt>>
  /\ UNCHANGED resetFrom
  /\ UNCHANGED <<registryVars, themeVars, contextVars, pageVars>>

\* a mutation: the reset that leaves the interval of the run alive
ResetTimerKeepsInterval ==
  /\ timerMounted
  /\ seconds' = 0
  /\ isRunning' = FALSE
  /\ UNCHANGED <<intervals, effectInterval, nextHandle>>
  /\ lastClick' = "reset"
  /\ resetFrom' = [running |-> isRunning, seconds |-> seconds]
  /\ UNCHANGED <<timerMounted, cleanupPending, secondsAtStop, startedAt, ticksInRun>>
  /\ UNCHANGED <<registryVars, themeVars, contextVars, pageVars>>

\* resetTimer: setSeconds(0); setIsRunning(false); the effect re-runs only
\* when isRunning changed.
ResetTimer ==
  /\ timerMounted
  /\ seconds' = 0
  /\ isRunning' = FALSE
  /\ IF isRunning
       THEN RerunTimerEffect(FALSE)
       ELSE UNCHANGED <<intervals, effectInterval, nextHandle>>
  /\ lastClick' = "reset"
  /\ resetFrom' = [running |-> isRunning, seconds |-> seconds]
  /\ UNCHANGED <<timerMounted, cleanupPending, secondsAtStop, startedAt, ticksInRun>>
  /\ UNCHANGED <<registryVars, themeVars, contextVars, pageVars>>

\* The page is left.  The state is dropped; the effect cleanup runs in the
\* same task (sync) or in a later one.
TimerUnmount(sync) ==
  /\ timerMounted
  /\ timerMounted' = FALSE
  /\ seconds' = 0
  /\ isRunning' = FALSE
  /\ IF sync
       THEN /\ intervals' = TimerCleanup(effectInterval, intervals)
            /\ effectInterval' = NullHandle
            /\ cleanupPending' = FALSE
       ELSE /\ cleanupPending' = TRUE
            /\ UNCHANGED <<intervals, effectInterval>>
  /\ lastClick' = "none"
  /\ UNCHANGED <<nextHandle, secondsAtStop, startedAt, ticksInRun>>
  /\ UNCHANGED resetFrom
  /\ UNCHANGED <<registryVars, themeVars, contextVars, pageVars>>

\* The deferred cleanup of a removed unit runs.
RunCleanup ==
  /\ cleanupPending
  /\ intervals' = TimerCleanup(effectInterval, intervals)
  /\ effectInterval' = NullHandle
  /\ cleanupPending' = FALSE
  /\ UNCHANGED <<timerMounted, seconds, isRunning, nextHandle, lastClick,
                 secondsAtStop, startedAt, ticksInRun>>
  /\ UNCHANGED resetFrom
  /\ UNCHANGED <<registryVars, themeVars, contextVars, pageVars>>

(* ---------------------------- theme actions ---------------------------- *)
\* The persistence effect body: classList.remove('light', 'dark');
\* classList.add(theme); localStorage.setItem(THEME_STORAGE_KEY, theme).
\* The state of the theme after a render that left newTheme, for a batch of
\* calls (<< >> when the render did not come from a handler).  A render
\* that changes nothing leaves a pending effect pending; a render that
\* changes the theme first flushes the pending effect, then has its own
\* effect run in the same task (sync) or later.
CommitTheme(newTheme, sync, calls) ==
  /\ theme' = newTheme
  /\ IF ThemeDepsChanged(theme, newTheme)
       THEN /\ storage' = IF sync THEN newTheme ELSE IF effectDue THEN theme ELSE storage
            /\ rootClasses' = IF sync THEN {newTheme} ELSE IF effectDue THEN {theme} ELSE rootClasses
            /\ effectDue' = ~sync
            /\ listening' = TRUE
            /\ everPersisted' = (everPersisted \/ sync \/ effectDue)
       ELSE UNCHANGED <<storage, rootClasses, effectDue, listening, everPersisted>>
  /\ lastBatch' = calls
  /\ themeBefore' = theme
  /\ lastCall' = Rerendered(lastCall, newTheme, language, notifications)
  /\ UNCHANGED <<bootStored, bootPrefersDark, initialTheme, themeAtExit, language,
                 notifications, outcomes>>

\* A handler calls toggleTheme / setTheme of the context value one or more
\* times; the queued updates are processed by the render that follows.
ThemeEvent(calls, sync) ==
  /\ CommitTheme(ProcessQueue(theme, [i \in 1 .. Len(calls) |-> QueuedUpdate(calls[i], theme)]),
                 sync, calls)
  /\ UNCHANGED <<prefersDark, lastChange>>
  /\ UNCHANGED <<registryVars, timerVars, pageVars>>

\* The media query reports a new OS preference.  Once the listener is
\* attached handleChange runs: if (!storedTheme) setThemeState(...).
HandleChange(matches) ==
  /\ matches # prefersDark
  /\ prefersDark' = matches
  /\ lastChange' = [seen |-> TRUE, stored |-> storage, attached |-> listening,
                    matches |-> matches]
  /\ IF listening /\ Falsy(storage)
       THEN CommitTheme(IF matches THEN "dark" ELSE "light", FALSE, << >>)
       ELSE /\ lastBatch' = << >>
            /\ UNCHANGED <<theme, storage, rootClasses, effectDue, themeBefore, bootStored,
                           bootPrefersDark, initialTheme, themeAtExit, listening,
                           everPersisted, contextVars>>
  /\ UNCHANGED <<registryVars, timerVars, pageVars>>

\* a mutation: the effect sets the class and stores nothing
PersistEffectClassOnly ==
  /\ effectDue
  /\ rootClasses' = {theme}
  /\ storage' = storage
  /\ effectDue' = FALSE
  /\ listening' = TRUE
  /\ everPersisted' = TRUE
  /\ UNCHANGED <<theme, prefersDark, bootStored, bootPrefersDark, initialTheme,
                 lastBatch, themeBefore, themeAtExit, lastChange>>
  /\ UNCHANGED <<registryVars, timerVars, contextVars, pageVars>>

\* The pending effects run: the persistence effect and, after the first
\* render, the effect that attaches handleChange.
PersistEffect ==
  /\ effectDue
  /\ rootClasses' = {theme}
  /\ storage' = theme
  /\ effectDue' = FALSE
  /\ listening' = TRUE
  /\ everPersisted' = TRUE
  /\ UNCHANGED <<theme, prefersDark, bootStored, bootPrefersDark, initialTheme,
                 lastBatch, themeBefore, themeAtExit, lastChange>>
  /\ UNCHANGED <<registryVars, timerVars, contextVars, pageVars>>

\* The page is loaded again: a new document, a new ThemeProvider whose
\* state starts from getInitialTheme; storage and the OS preference stay.
AppStart ==
  /\ theme' = GetInitialTheme(TRUE, storage, prefersDark)
  /\ rootClasses' = {}
  /\ effectDue' = TRUE
  /\ bootStored' = storage
  /\ bootPrefersDark' = prefersDark
  /\ initialTheme' = GetInitialTheme(TRUE, storage, prefersDark)
  /\ lastBatch' = << >>
  /\ themeBefore' = GetInitialTheme(TRUE, storage, prefersDark)
  /\ themeAtExit' = IF effectDue THEN "none" ELSE theme
  /\ listening' = FALSE
  /\ UNCHANGED <<everPersisted, lastChange>>
  /\ language' = "English"
  /\ notifications' = TRUE
  /\ lastCall' = NoCall
  /\ UNCHANGED <<storage, prefersDark, outcomes>>
  /\ UNCHANGED <<registryVars, timerVars, pageVars>>

\* The storage area is changed from outside the provider while the page is
\* open (the browser's "clear site data", the developer tools).
ExternalStorage(v) ==
  /\ v # storage
  /\ storage' = v
  /\ UNCHANGED <<theme, prefersDark, rootClasses, effectDue, bootStored, bootPrefersDark,
                 initialTheme, lastBatch, themeBefore, themeAtExit, listening, everPersisted,
                 lastChange>>
  /\ UNCHANGED <<registryVars, timerVars, contextVars, pageVars>>

(* --------------------------- context actions --------------------------- *)
\* A consumer renders and calls an accessor hook.
CallAccessor(hook, inside) ==
  /\ lastCall' = CallResult(hook, inside, theme, language, notifications)
  /\ outcomes' = outcomes \cup {<<hook, inside, lastCall'.threw>>}
  /\ UNCHANGED <<language, notifications>>
  /\ UNCHANGED <<registryVars, timerVars, themeVars, pageVars>>

\* onChange={(e) => setLanguage(e.target.value)} of the language select
ChangeLanguage(lang) ==
  /\ lang # language
  /\ language' = lang
  /\ lastCall' = Rerendered(lastCall, theme, lang, notifications)
  /\ UNCHANGED <<notifications, outcomes>>
  /\ UNCHANGED <<registryVars, timerVars, themeVars, pageVars>>

\* toggleNotifications: setNotifications((prev) => !prev)
ToggleNotifications ==
  /\ notifications' = ~notifications
  /\ lastCall' = Rerendered(lastCall, theme, language, ~notifications)
  /\ UNCHANGED <<language, outcomes>>
  /\ UNCHANGED <<registryVars, timerVars, themeVars, pageVars>>

(* ------------------------ entry point and router actions --------------- *)
\* a mutation: the entry point without the check of rootElement
EntryPointUnchecked(hasRoot) == "mounted"

\* if (!rootElement) throw new Error(...); createRoot(rootElement).render(...)
EntryPoint(hasRoot) == IF ~hasRoot THEN "failed" ELSE "mounted"

\* The entry point runs.  When it reaches render, the router shows the
\* element matched for the URL the page was opened with.
Boot ==
  /\ appState = "loading"
  /\ appState' = EntryPoint(rootElement)
  /\ IF appState' = "mounted"
       THEN /\ history' = Settle(history)
            /\ page' = OutletPage(history')
            /\ lastNav' = [requested |-> history[Len(history)],
                           redirected |-> history' # history]
       ELSE UNCHANGED <<history, page, lastNav>>
  /\ UNCHANGED <<rootElement, strictMode, displayed, passes, pendingRender>>
  /\ UNCHANGED <<registryVars, timerVars, themeVars, contextVars, playVars>>

\* The first render of a counter unit in the mounted application.
AppMount(u) ==
  LET ids == MountEvaluations(strictMode, UseIdMount)
  IN /\ appState = "mounted"
     /\ unitId[u] = NoId
     /\ ids[Len(ids)] <= MaxIds
     /\ unitId' = [unitId EXCEPT ![u] = ids[Len(ids)]]
     /\ nextId' = ids[Len(ids)] + 1
     /\ passes' = [passes EXCEPT ![u] = 1]
     /\ RenderPass(u, ids)
     /\ UNCHANGED <<appState, rootElement, strictMode, history, page, lastNav>>
     /\ UNCHANGED <<timerVars, themeVars, contextVars, playVars>>

\* A state update of the unit that owns the counter, or of one above it,
\* schedules a render of u.
ScheduleRender(u) ==
  /\ unitId[u] # NoId
  /\ u \notin pendingRender
  /\ pendingRender' = pendingRender \cup {u}
  /\ UNCHANGED <<appState, rootElement, strictMode, displayed, passes, history, page, lastNav>>
  /\ UNCHANGED <<registryVars, timerVars, themeVars, contextVars, playVars>>

\* A scheduled render of a mounted counter unit.
AppRender(u) ==
  /\ unitId[u] # NoId
  /\ u \in pendingRender
  /\ passes[u] < MaxPasses
  /\ passes' = [passes EXCEPT ![u] = @ + 1]
  /\ RenderPass(u, UpdateEvaluations(strictMode, unitId[u]))
  /\ UNCHANGED <<unitId, nextId>>
  /\ UNCHANGED <<appState, rootElement, strictMode, history, page, lastNav>>
  /\ UNCHANGED <<timerVars, themeVars, contextVars, playVars>>

\* A counter unit leaves the tree of the mounted application.
AppUnmount(u) ==
  /\ appState = "mounted"
  /\ unitId[u] # NoId
  /\ unitId' = [unitId EXCEPT ![u] = NoId]
  /\ displayed' = [displayed EXCEPT ![u] = 0]
  /\ passes' = [passes EXCEPT ![u] = 0]
  /\ pendingRender' = pendingRender \ {u}
  /\ UNCHANGED <<renderCounts, nextId, observed>>
  /\ UNCHANGED <<appState, rootElement, strictMode, history, page, lastNav>>
  /\ UNCHANGED <<timerVars, themeVars, contextVars, playVars>>

\* A link is followed or a URL is opened inside the running application:
\* the path is pushed, then the matched element renders.
NavigateTo(path) ==
  /\ appState = "mounted"
  /\ Len(history) < MaxHistory
  /\ history' = Settle(Append(history, path))
  /\ page' = OutletPage(history')
  /\ lastNav' = [requested |-> path, redirected |-> history' # Append(history, path)]
  /\ UNCHANGED <<appState, rootElement, strictMode, displayed, passes, pendingRender>>
  /\ UNCHANGED <<registryVars, timerVars, themeVars, contextVars, playVars>>

\* The browser's back button.
GoBack ==
  /\ appState = "mounted"
  /\ Len(history) > 1
  /\ history' = Settle(SubSeq(history, 1, Len(history) - 1))
  /\ page' = OutletPage(history')
  /\ lastNav' = [requested |-> history[Len(history) - 1],
                 redirected |-> history' # SubSeq(history, 1, Len(history) - 1)]
  /\ UNCHANGED <<appState, rootElement, strictMode, displayed, passes, pendingRender>>
  /\ UNCHANGED <<registryVars, timerVars, themeVars, contextVars, playVars>>

(* ---------------------- useCallback playground actions ----------------- *)
\* The router shows UseCallbackPlayground: its first render.
CallbackMount ==
  /\ appState = "mounted"
  /\ page = "UseCallbackPlayground"
  /\ ~cbMounted
  /\ cbMounted' = TRUE
  /\ CallbackRender(0, "", InitialItems, 4)
  /\ UNCHANGED <<registryVars, timerVars, themeVars, contextVars, appVars, memoVars, refVars, todoVars>>

\* A click on "Increment (Bad)" or "Increment (Good)": setCount((c) => c + 1)
ClickIncrement(b) ==
  /\ cbMounted
  /\ cbRenders < MaxParentRenders
  /\ buttons[b].mounted
  /\ CallbackRender(cbCount + 1, cbName, cbItems, cbNextId)
  /\ UNCHANGED <<cbMounted, registryVars, timerVars, themeVars, contextVars, appVars, memoVars, refVars, todoVars>>

\* onChange of the name input: setName(e.target.value)
ChangeName(n) ==
  /\ cbMounted
  /\ cbRenders < MaxParentRenders
  /\ n # cbName
  /\ CallbackRender(cbCount, n, cbItems, cbNextId)
  /\ UNCHANGED <<cbMounted, registryVars, timerVars, themeVars, contextVars, appVars, memoVars, refVars, todoVars>>

\* A click on "Add Item" runs handleAdd of the last render with the nextId
\* it closed over: setItems appends the item, setNextId((n) => n + 1).
ClickAdd ==
  LET captured == cbHandlers.add.deps[1]
  IN /\ cbMounted
     /\ cbRenders < MaxParentRenders
     /\ CallbackRender(cbCount, cbName, Append(cbItems, NewItem(captured)), cbNextId + 1)
     /\ UNCHANGED <<cbMounted, registryVars, timerVars, themeVars, contextVars, appVars, memoVars, refVars, todoVars>>

\* A click on Delete of the item with key id: onDelete(id), i.e. handleDelete
ClickDelete(id) ==
  /\ cbMounted
  /\ cbRenders < MaxParentRenders
  /\ listItems[id].mounted
  /\ CallbackRender(cbCount, cbName, FilterOut(cbItems, listItems[id].props.id), cbNextId)
  /\ UNCHANGED <<cbMounted, registryVars, timerVars, themeVars, contextVars, appVars, memoVars, refVars, todoVars>>

\* The playground leaves the tree; its state and its children are dropped.
CallbackUnmount ==
  /\ cbMounted
  /\ cbMounted' = FALSE
  /\ cbCount' = 0
  /\ cbName' = ""
  /\ cbItems' = InitialItems
  /\ cbNextId' = 4
  /\ cbRenders' = 0
  /\ cbHandlers' = [h \in {"bad", "good", "greet", "del", "add"} |-> NoHandler]
  /\ buttons' = [b \in Buttons |-> NoButton]
  /\ listItems' = [i \in ItemIds |-> NoItem]
  /\ UNCHANGED <<registryVars, timerVars, themeVars, contextVars, appVars, memoVars, refVars, todoVars>>

(* ------------------------ useMemo playground actions ------------------- *)
\* The router shows UseMemoPlayground: its first render.
MemoMount ==
  /\ appState = "mounted"
  /\ page = "UseMemoPlayground"
  /\ ~mmMounted
  /\ mmMounted' = TRUE
  /\ MemoRender(0, 1, "", FALSE)
  /\ UNCHANGED <<registryVars, timerVars, themeVars, contextVars, appVars, callbackVars, refVars, todoVars>>

\* A click on one of the two count buttons: setCount((c) => c + 1)
MemoClickCount ==
  /\ mmMounted
  /\ mmRenders < MaxParentRenders
  /\ MemoRender(mmCount + 1, mmMultiplier, mmFilter, mmShowExpensive)
  /\ UNCHANGED <<mmMounted, registryVars, timerVars, themeVars, contextVars, appVars,
                 callbackVars, refVars, todoVars>>

\* onChange of the filter input: setFilter(e.target.value)
ChangeFilter(f) ==
  /\ mmMounted
  /\ mmRenders < MaxParentRenders
  /\ f # mmFilter
  /\ MemoRender(mmCount, mmMultiplier, f, mmShowExpensive)
  /\ UNCHANGED <<mmMounted, registryVars, timerVars, themeVars, contextVars, appVars,
                 callbackVars, refVars, todoVars>>

\* onChange of the multiplier input: setMultiplier(Number(e.target.value))
ChangeMultiplier(m) ==
  /\ mmMounted
  /\ mmRenders < MaxParentRenders
  /\ m # mmMultiplier
  /\ MemoRender(mmCount, m, mmFilter, mmShowExpensive)
  /\ UNCHANGED <<mmMounted, registryVars, timerVars, themeVars, contextVars, appVars,
                 callbackVars, refVars, todoVars>>

\* onChange of the checkbox: setShowExpensive(e.target.checked)
ToggleShowExpensive ==
  /\ mmMounted
  /\ mmRenders < MaxParentRenders
  /\ MemoRender(mmCount, mmMultiplier, mmFilter, ~mmShowExpensive)
  /\ UNCHANGED <<mmMounted, registryVars, timerVars, themeVars, contextVars, appVars,
                 callbackVars, refVars, todoVars>>

\* The playground leaves the tree; its state and its children are dropped.
MemoUnmount ==
  /\ mmMounted
  /\ mmMounted' = FALSE
  /\ mmCount' = 0
  /\ mmMultiplier' = 1
  /\ mmFilter' = ""
  /\ mmShowExpensive' = FALSE
  /\ mmRenders' = 0
  /\ mmQuiet' = 0
  /\ memoizedData' = NoMemo
  /\ nonMemoizedData' = NoMemo
  /\ childWithMemo' = NoChild
  /\ childWithoutMemo' = NoChild
  /\ UNCHANGED <<registryVars, timerVars, themeVars, contextVars, appVars, callbackVars, refVars, todoVars>>

(* ------------------------- useRef playground actions ------------------- *)
\* The router shows UseRefPlayground: its first render.
RefMount ==
  /\ appState = "mounted"
  /\ page = "UseRefPlayground"
  /\ ~rfMounted
  /\ rfMounted' = TRUE
  /\ RefRender(0, << >>, 0)
  /\ UNCHANGED <<clickCount, rfPrior>>
  /\ UNCHANGED <<registryVars, timerVars, themeVars, contextVars, appVars, callbackVars,
                 memoVars, todoVars>>

\* A click on Increment or "Force Re-render" (delta 1) or Decrement (delta -1):
\* setCount((c) => c + delta).  Effects left from the render before are
\* flushed before the click's render, so the click finds none due.
RefClickCount(delta) ==
  /\ rfMounted
  /\ ~rfEffectDue
  /\ rfRenders + 2 <= MaxRefRenders
  /\ RefRender(rfCount + delta, previousValue, displayedRefValue)
  /\ rfPrior' = <<rfCount>>
  /\ UNCHANGED <<rfMounted, clickCount>>
  /\ UNCHANGED <<registryVars, timerVars, themeVars, contextVars, appVars, callbackVars,
                 memoVars, todoVars>>

\* useEffect(() => { setPreviousValue(count); }, [count]) runs; a value that
\* differs from the state renders the component again.
RunPreviousEffect ==
  /\ rfMounted
  /\ rfEffectDue
  /\ IF previousValue = <<rfCount>>
       THEN UNCHANGED <<rfCount, previousValue, displayedRefValue, rfRenders, rfShown>>
       ELSE /\ rfCount' = rfCount
            /\ previousValue' = <<rfCount>>
            /\ displayedRefValue' = displayedRefValue
            /\ rfRenders' = rfRenders + 1
            /\ rfShown' = [current |-> TextOf(rfCount), previous |-> PreviousText(<<rfCount>>),
                            displayed |-> displayedRefValue]
  /\ rfEffectDue' = FALSE
  /\ UNCHANGED <<rfMounted, clickCount, rfPrior>>
  /\ UNCHANGED <<registryVars, timerVars, themeVars, contextVars, appVars, callbackVars,
                 memoVars, todoVars>>

\* a mutation: the click count kept in state, so the click renders
HandleRefClickInState ==
  /\ rfMounted
  /\ clickCount < MaxRefClicks
  /\ rfRenders < MaxRefRenders
  /\ clickCount' = clickCount + 1
  /\ RefRender(rfCount, previousValue, displayedRefValue)
  /\ UNCHANGED <<rfMounted, rfPrior>>
  /\ UNCHANGED <<registryVars, timerVars, themeVars, contextVars, appVars, callbackVars,
                 memoVars, todoVars>>

\* handleRefClick: clickCount.current += 1, no state is set
HandleRefClick ==
  /\ rfMounted
  /\ clickCount < MaxRefClicks
  /\ clickCount' = clickCount + 1
  /\ UNCHANGED <<rfMounted, rfCount, previousValue, displayedRefValue, rfRenders,
                 rfEffectDue, rfShown, rfPrior>>
  /\ UNCHANGED <<registryVars, timerVars, themeVars, contextVars, appVars, callbackVars,
                 memoVars, todoVars>>

\* showRefValue: setDisplayedRefValue(clickCount.current); the same value
\* as the state renders nothing.
ShowRefValue ==
  /\ rfMounted
  /\ ~rfEffectDue
  /\ rfRenders < MaxRefRenders
  /\ clickCount # displayedRefValue
  /\ RefRender(rfCount, previousValue, clickCount)
  /\ UNCHANGED <<rfMounted, clickCount, rfPrior>>
  /\ UNCHANGED <<registryVars, timerVars, themeVars, contextVars, appVars, callbackVars,
                 memoVars, todoVars>>

\* The playground leaves the tree; its state and its ref are dropped.
RefUnmount ==
  /\ rfMounted
  /\ rfMounted' = FALSE
  /\ rfCount' = 0
  /\ previousValue' = << >>
  /\ displayedRefValue' = 0
  /\ clickCount' = 0
  /\ rfRenders' = 0
  /\ rfEffectDue' = FALSE
  /\ rfShown' = [current |-> "", previous |-> "", displayed |-> 0]
  /\ rfPrior' = << >>
  /\ UNCHANGED <<registryVars, timerVars, themeVars, contextVars, appVars, callbackVars,
                 memoVars, todoVars>>

(* --------------------------- todo reducer actions ---------------------- *)
\* todoDispatch(action): the next state is todoReducer(state, action)
TodoDispatch(action) ==
  /\ action.type = "ADD" => todoState.nextId <= MaxTodoId
  /\ todoState' = todoReducer(todoState, action)
  /\ usedIds' = usedIds \cup TodoIdsOf(todoState')
  /\ lastAction' = action
  /\ UNCHANGED <<registryVars, timerVars, themeVars, contextVars, appVars, callbackVars,
                 memoVars, refVars>>

(* ---------------------------- specifications --------------------------- *)
InitRegistryVars ==
  /\ renderCounts = << >>
  /\ unitId = [u \in Units |-> NoId]
  /\ nextId = 1
  /\ observed = [i \in Ids |-> << >>]

InitTimerVars ==
  /\ timerMounted = FALSE
  /\ seconds = 0
  /\ isRunning = FALSE
  /\ intervals = {}
  /\ nextHandle = 1
  /\ effectInterval = NullHandle
  /\ cleanupPending = FALSE
  /\ lastClick = "none"
  /\ secondsAtStop = 0
  /\ startedAt = 0
  /\ ticksInRun = 0
  /\ resetFrom = [running |-> FALSE, seconds |-> 0]

\* The provider starts: any stored value, any OS preference.
InitThemeVars ==
  /\ storage \in StoredValues
  /\ prefersDark \in BOOLEAN
  /\ theme = GetInitialTheme(TRUE, storage, prefersDark)
  /\ rootClasses = {}
  /\ effectDue = TRUE
  /\ bootStored = storage
  /\ bootPrefersDark = prefersDark
  /\ initialTheme = theme
  /\ lastBatch = << >>
  /\ themeBefore = theme
  /\ themeAtExit = "none"
  /\ listening = FALSE
  /\ everPersisted = FALSE
  /\ lastChange = NoChange

InitContextVars ==
  /\ language = "English"
  /\ notifications = TRUE
  /\ lastCall = NoCall
  /\ outcomes = {}

\* Before the entry point has run: the document may lack the root element,
\* the build is any of StrictModes, the page was opened with any URL.
InitAppVars ==
  /\ appState = "loading"
  /\ rootElement \in BOOLEAN
  /\ strictMode \in StrictModes
  /\ displayed = [u \in Units |-> 0]
  /\ passes = [u \in Units |-> 0]
  /\ pendingRender = {}
  /\ history \in {<<p>> : p \in Paths}
  /\ page = "none"
  /\ lastNav = [requested |-> Home, redirected |-> FALSE]

InitCallbackVars ==
  /\ cbMounted = FALSE
  /\ cbCount = 0
  /\ cbName = ""
  /\ cbItems = InitialItems
  /\ cbNextId = 4
  /\ cbRenders = 0
  /\ cbHandlers = [h \in {"bad", "good", "greet", "del", "add"} |-> NoHandler]
  /\ buttons = [b \in Buttons |-> NoButton]
  /\ listItems = [i \in ItemIds |-> NoItem]

InitMemoVars ==
  /\ mmMounted = FALSE
  /\ mmCount = 0
  /\ mmMultiplier = 1
  /\ mmFilter = ""
  /\ mmShowExpensive = FALSE
  /\ mmRenders = 0
  /\ mmQuiet = 0
  /\ memoizedData = NoMemo
  /\ nonMemoizedData = NoMemo
  /\ childWithMemo = NoChild
  /\ childWithoutMemo = NoChild

InitRefVars ==
  /\ rfMounted = FALSE
  /\ rfCount = 0
  /\ previousValue = << >>
  /\ displayedRefValue = 0
  /\ clickCount = 0
  /\ rfRenders = 0
  /\ rfEffectDue = FALSE
  /\ rfShown = [current |-> "", previous |-> "", displayed |-> 0]
  /\ rfPrior = << >>

InitTodoVars ==
  /\ todoState = todoInitialState
  /\ usedIds = {}
  /\ lastAction = [type |-> "UNKNOWN"]

InitPlayVars == InitCallbackVars /\ InitMemoVars /\ InitRefVars /\ InitTodoVars

\* One start, for the specifications that do not exercise the entry point.
OneAppStart ==
  /\ InitAppVars /\ InitPlayVars
  /\ rootElement
  /\ strictMode = "off"
  /\ history = <<Home>>

\* One start of the provider, for the specifications that do not exercise the theme.
OneThemeStart ==
  /\ InitThemeVars
  /\ storage = Absent
  /\ prefersDark = FALSE

Init == InitRegistryVars /\ InitTimerVars /\ OneThemeStart /\ InitContextVars /\ OneAppStart

InitTheme ==
  InitRegistryVars /\ InitTimerVars /\ InitThemeVars /\ InitContextVars /\ OneAppStart

NextRegistry ==
  \/ \E u \in Units : Mount(u)
  \/ \E u \in Units : Rerender(u)
  \/ \E u \in Units : Unmount(u)

SpecRegistry == Init /\ [][NextRegistry]_vars

NextTimer ==
  \/ TimerMount
  \/ ClickStartStop
  \/ \E h \in Handles : Tick(h)
  \/ ResetTimer
  \/ \E sync \in BOOLEAN : TimerUnmount(sync)
  \/ RunCleanup

SpecTimer == Init /\ [][NextTimer]_vars

NextTheme ==
  \/ \E calls \in CallSeqs, sync \in BOOLEAN : ThemeEvent(calls, sync)
  \/ \E matches \in BOOLEAN : HandleChange(matches)
  \/ PersistEffect
  \/ AppStart

SpecTheme == InitTheme /\ [][NextTheme]_vars

\* The provider with a storage area that can change under it.
NextThemeEnv ==
  \/ \E sync \in BOOLEAN : ThemeEvent(<<"toggleTheme">>, sync)
  \/ \E matches \in BOOLEAN : HandleChange(matches)
  \/ PersistEffect
  \/ AppStart
  \/ \E v \in StoredValues : ExternalStorage(v)

SpecThemeEnv == InitTheme /\ [][NextThemeEnv]_vars

NextContext ==
  \/ \E hook \in Hooks, inside \in BOOLEAN : CallAccessor(hook, inside)
  \/ \E lang \in Languages : ChangeLanguage(lang)
  \/ ToggleNotifications
  \/ \E sync \in BOOLEAN : ThemeEvent(<<"toggleTheme">>, sync)

SpecContext == Init /\ [][NextContext]_vars

\* The application from the entry point on, with its counter units.
InitApp ==
  /\ InitRegistryVars /\ InitTimerVars /\ OneThemeStart /\ InitContextVars
  /\ InitAppVars /\ InitPlayVars
  /\ history = <<Home>>

NextApp ==
  \/ Boot
  \/ \E u \in Units : AppMount(u)
  \/ \E u \in Units : ScheduleRender(u)
  \/ \E u \in Units : AppRender(u)
  \/ \E u \in Units : AppUnmount(u)

SpecApp == InitApp /\ [][NextApp]_vars

\* The router of the application, opened with any URL.
InitRouter ==
  /\ InitRegistryVars /\ InitTimerVars /\ OneThemeStart /\ InitContextVars
  /\ InitAppVars /\ InitPlayVars
  /\ rootElement
  /\ strictMode = "off"

NextRouter ==
  \/ Boot
  \/ \E path \in Paths : NavigateTo(path)
  \/ GoBack

SpecRouter == InitRouter /\ [][NextRouter]_vars

\* The useCallback playground, opened by its URL in any build.
InitCallback ==
  /\ InitRegistryVars /\ InitTimerVars /\ OneThemeStart /\ InitContextVars
  /\ InitAppVars /\ InitPlayVars
  /\ rootElement
  /\ history = << <<"hooks", "use-callback">> >>

NextCallback ==
  \/ Boot
  \/ CallbackMount
  \/ \E b \in {"bad", "good"} : ClickIncrement(b)
  \/ \E n \in Names : ChangeName(n)
  \/ ClickAdd
  \/ \E id \in ItemIds : ClickDelete(id)
  \/ CallbackUnmount

SpecCallback == InitCallback /\ [][NextCallback]_vars

\* The useMemo playground, opened by its URL in any build.
InitMemo ==
  /\ InitRegistryVars /\ InitTimerVars /\ OneThemeStart /\ InitContextVars
  /\ InitAppVars /\ InitPlayVars
  /\ rootElement
  /\ history = << <<"hooks", "use-memo">> >>

NextMemo ==
  \/ Boot
  \/ MemoMount
  \/ MemoClickCount
  \/ \E f \in Filters : ChangeFilter(f)
  \/ \E m \in Multipliers : ChangeMultiplier(m)
  \/ ToggleShowExpensive
  \/ MemoUnmount

SpecMemo == InitMemo /\ [][NextMemo]_vars

\* The useRef playground, opened by its URL in any build.
InitRef ==
  /\ InitRegistryVars /\ InitTimerVars /\ OneThemeStart /\ InitContextVars
  /\ InitAppVars /\ InitPlayVars
  /\ rootElement
  /\ history = << <<"hooks", "use-ref">> >>

NextRef ==
  \/ Boot
  \/ RefMount
  \/ \E delta \in {1, -1} : RefClickCount(delta)
  \/ RunPreviousEffect
  \/ HandleRefClick
  \/ ShowRefValue
  \/ RefUnmount

SpecRef == InitRef /\ [][NextRef]_vars

\* The todo reducer under every sequence of actions.
NextTodo == \E action \in TodoActions : TodoDispatch(action)

SpecTodo == Init /\ [][NextTodo]_vars

(* ------------------------------- claims -------------------------------- *)
\* The count the registry stores for an identity, 0 while it has no entry.
StoredCount(m, id) == IF id \in DOMAIN m THEN m[id] ELSE 0

\* C1: for every identity, the values observe returned for it, in order,
\* start at 1 and are strictly increasing.
C1_ObserveIncreasingFromOne ==
  \A id \in Ids :
    /\ Len(observed[id]) > 0 => observed[id][1] = 1
    /\ \A i \in 1 .. Len(observed[id]) - 1 : observed[id][i] < observed[id][i + 1]

\* C1 witness: a unit was rendered MaxRenders times with one identity.
C1_Witness == \E u \in Units : unitId[u] # NoId /\ Len(observed[unitId[u]]) = MaxRenders

C3_ObserveFrame ==
  [][\A a \in Ids :
       observed'[a] # observed[a] =>
         \A b \in Ids \ {a} :
           /\ (b \in DOMAIN renderCounts') = (b \in DOMAIN renderCounts)
           /\ MapGet(renderCounts', b) = MapGet(renderCounts, b)]_vars

\* C3 witness: two mounted units with distinct identities, each rendered
\* more than once, with different counts.
C3_Witness ==
  \E u, v \in Units :
    /\ unitId[u] # NoId /\ unitId[v] # NoId /\ unitId[u] # unitId[v]
    /\ StoredCount(renderCounts, unitId[u]) = 3
    /\ StoredCount(renderCounts, unitId[v]) = 2

\* C4: while the demo is mounted and Stop was the last button pressed,
\* seconds is the value it had when Stop was pressed: no interval callback
\* changes it after the flag went off.
C4_StoppedTimerKeepsSeconds ==
  (timerMounted /\ lastClick = "stop") => (~isRunning /\ seconds = secondsAtStop)

\* C4 witness: stopped after two ticks, after an earlier run and stop.
C4_Witness ==
  timerMounted /\ lastClick = "stop" /\ secondsAtStop = 2 /\ nextHandle = 3

\* C5: at most one interval is live, and once no cleanup is pending an
\* interval is live exactly when the demo is mounted with isRunning true.
C5_IntervalOnlyWhileRunning ==
  /\ Cardinality(intervals) <= 1
  /\ ~cleanupPending => ((intervals # {}) <=> (timerMounted /\ isRunning))

\* C5 witness: the demo was left while running, its cleanup has run, and no
\* interval is live.
C5_Witness ==
  ~timerMounted /\ ~cleanupPending /\ intervals = {} /\ nextHandle = 3

\* C6: started at 0, stopped after exactly 3 ticks: the display is "00:03"
\* in every state until another button is pressed.
C6_ThreeTicksDisplay ==
  (timerMounted /\ lastClick = "stop" /\ startedAt = 0 /\ ticksInRun = 3)
    => TimerDisplay(seconds) = "00:03"

\* C6 witness: that scenario has happened.
C6_Witness ==
  timerMounted /\ lastClick = "stop" /\ startedAt = 0 /\ ticksInRun = 3 /\ ~isRunning

\* C7: a call outside the provider throws; a call inside returns, without
\* throwing, the value the provider supplies in the current state.
C7_AccessorContract ==
  /\ \A o \in outcomes : o[3] = ~o[2]
  /\ lastCall.hook \in Hooks =>
       IF lastCall.inside
         THEN /\ ~lastCall.threw
              /\ lastCall.value =
                   ProvidedValue(lastCall.hook, theme, language, notifications)
         ELSE lastCall.threw

\* C7 witness: every hook was called inside and outside, and the last call
\* was inside a provider whose value had changed since it started.
C7_Witness ==
  /\ \A hook \in Hooks, inside \in BOOLEAN : <<hook, inside, ~inside>> \in outcomes
  /\ lastCall.hook = "useSettings" /\ lastCall.inside
  /\ language = "French" /\ ~notifications

\* C8: a handler that calls toggleTheme twice leaves the theme it started
\* from, and one that calls it once leaves the other theme.
C8_ToggleParity ==
  /\ lastBatch = <<"toggleTheme", "toggleTheme">> => theme = themeBefore
  /\ lastBatch = <<"toggleTheme">> =>
       theme # themeBefore /\ theme \in Themes /\ themeBefore \in Themes

\* C8 witness: two toggles in one handler, starting from dark.
C8_Witness ==
  lastBatch = <<"toggleTheme", "toggleTheme">> /\ themeBefore = "dark" /\ theme = "dark"

\* C9: when no persistence effect is pending, the stored value is the
\* current theme, one of 'light' and 'dark'.
C9_StoredIsCurrentTheme ==
  ~effectDue => (storage = theme /\ storage \in Themes)

\* C9 witness: a toggle and a set in one handler changed the theme, and the
\* effect has run.
C9_Witness ==
  /\ ~effectDue
  /\ lastBatch = <<"toggleTheme", "setTheme:dark">>
  /\ themeBefore = "light" /\ theme = "dark"

\* C10: the theme at the last start is the stored value read then when that
\* was 'light' or 'dark', and otherwise follows the OS preference read then.
C10_InitialTheme ==
  initialTheme =
    IF bootStored \in Themes THEN bootStored
    ELSE IF bootPrefersDark THEN "dark" ELSE "light"

\* C10 witness: a start with a stored value that is not a theme, under a
\* dark OS preference.
C10_Witness ==
  bootStored = "system" /\ bootPrefersDark /\ initialTheme = "dark"

\* C11: a restart made when no persistence effect was pending starts with
\* the theme that was current when the page was left, whatever the OS
\* preference is.
C11_RestartKeepsTheme ==
  themeAtExit # "none" => initialTheme = themeAtExit

\* C11 witness: a restart kept a theme that the OS preference would not
\* have chosen and that differs from the one of the first start.
C11_Witness ==
  /\ themeAtExit = "light" /\ bootPrefersDark /\ initialTheme = "light"
  /\ theme = "light" /\ effectDue

\* C12: in the application as the entry point mounts it, the count a
\* mounted counter unit displays is the number of its renders since mount.
C12_DisplayedIsRenderCount ==
  \A u \in Units : unitId[u] # NoId => displayed[u] = passes[u]

\* C13: a step in which a unit renders, and so observes, leaves that unit
\* with no render scheduled and schedules none for any other unit; it
\* leaves every other unit, every registry entry of an identity that was
\* not observed, and all component state as they were.
C13_ObserveSchedulesNothing ==
  [][\A u \in Units :
       passes'[u] > passes[u] =>
         /\ pendingRender' = pendingRender \ {u}
         /\ \A v \in Units \ {u} :
              /\ displayed'[v] = displayed[v]
              /\ passes'[v] = passes[v]
              /\ unitId'[v] = unitId[v]
         /\ \A id \in Ids :
              observed'[id] = observed[id] => MapGet(renderCounts', id) = MapGet(renderCounts, id)
         /\ UNCHANGED <<timerVars, themeVars, contextVars, appState, history, page>>]_vars

\* C13 witness: a unit has rendered three times while a render of the
\* other unit stayed scheduled.
C13_Witness ==
  \E u, v \in Units :
    /\ u # v /\ passes[u] = 2 /\ u \notin pendingRender
    /\ unitId[v] # NoId /\ v \in pendingRender /\ passes[v] = 1

\* C14: no step removes a registry entry, and the entry of an identity
\* that no mounted unit holds after the step keeps its count.
C14_EntriesNeverRemoved ==
  [][\A id \in DOMAIN renderCounts :
       /\ id \in DOMAIN renderCounts'
       /\ (\A u \in Units : unitId'[u] # id) => renderCounts'[id] = renderCounts[id]]_vars

\* C14 witness: the entry of an unmounted identity still holds its count
\* of 2 while the unit that held it was mounted again and rendered.
C14_Witness ==
  \E id \in DOMAIN renderCounts :
    /\ \A u \in Units : unitId[u] # id
    /\ renderCounts[id] = 2
    /\ \E u \in Units : unitId[u] > id /\ StoredCount(renderCounts, unitId[u]) = 3

\* C15: after a navigation the location is the requested path and the
\* page is that path's page, without redirect, when the path is declared;
\* otherwise the navigation was redirected, the location is '/', the home
\* page is shown and the requested path is not in the history.
C15_UnknownPathsGoHome ==
  appState = "mounted" =>
    LET location == history[Len(history)]
    IN IF lastNav.requested \in DeclaredPaths
         THEN /\ ~lastNav.redirected
              /\ location = lastNav.requested
              /\ page = IF location = Home THEN "HomePage" ELSE RouteElement(location)
         ELSE /\ lastNav.redirected
              /\ location = Home
              /\ page = "HomePage"
              /\ \A i \in 1 .. Len(history) : history[i] # lastNav.requested

\* C15 witness: from a hook page, a path below a declared one was
\* requested and the home page is shown over the hook page's entry.
C15_Witness ==
  /\ appState = "mounted"
  /\ lastNav.requested = <<"hooks", "use-state", "extra">>
  /\ history = <<<<"hooks", "use-ref">>, Home>>
  /\ page = "HomePage"

\* C16: the application is mounted only with a root element; without one
\* the entry point fails and nothing is ever rendered.
C16_NoMountWithoutRoot ==
  /\ appState = "mounted" => rootElement
  /\ ~rootElement =>
       /\ appState \in {"loading", "failed"}
       /\ renderCounts = << >>
       /\ \A u \in Units : unitId[u] = NoId
       /\ page = "none"

\* C16 witness: the entry point has failed for lack of a root element.
C16_Witness == appState = "failed" /\ ~rootElement


\* C17: in the useCallback playground, over every render of the parent that
\* follows its mount (a change of count, of name or of the list), the count
\* the 'Good' button shows stays the one it showed at mount, and the count
\* the 'Bad' button shows goes up.
C17_GoodStaysBadGrows ==
  [][(cbMounted /\ cbMounted' /\ cbRenders' > cbRenders) =>
       /\ buttons'["good"].shown = buttons["good"].atMount
       /\ buttons'["good"].atMount = buttons["good"].atMount
       /\ buttons'["bad"].shown > buttons["bad"].shown]_vars

\* count and name have both changed, the parent has rendered four times
C17_Witness ==
  /\ cbMounted /\ cbRenders >= 4 /\ cbCount > 0 /\ cbName # ""
  /\ buttons["good"].shown = buttons["good"].atMount
  /\ buttons["bad"].shown >= buttons["bad"].atMount + 3

\* C18: in the list of the useCallback playground, every item that is
\* present shows the render count it showed at mount, whatever was added
\* or deleted since.
C18_ItemsKeepMountCount ==
  \A i \in ItemIds : listItems[i].mounted => listItems[i].shown = listItems[i].atMount

\* an item was added and another deleted while item 1 stayed in the list
C18_Witness ==
  /\ cbMounted /\ cbNextId > 4 /\ Len(cbItems) = 3
  /\ listItems[1].mounted /\ listItems[4].mounted
  /\ listItems[1].shown = listItems[1].atMount
  /\ listItems[1].atMount > 0

\* C19: in the useMemo playground, once the parent has rendered again without
\* a change of count (typing in the filter, say), the render count
\* ChildWithMemo shows differs from the one ChildWithoutMemo shows.
C19_ChildCountsDiffer ==
  (mmMounted /\ mmQuiet > 0) => childWithMemo.shown # childWithoutMemo.shown

\* C20: in the useRef playground, once the effect of the last render has run,
\* 'Current' shows count and 'Previous' shows the value count held before
\* its most recent change, or '-' when count has not changed yet.
C20_PreviousIsPrior ==
  (rfMounted /\ ~rfEffectDue) =>
    /\ rfShown.current = TextOf(rfCount)
    /\ rfShown.previous = (IF rfPrior = << >> THEN "-" ELSE TextOf(rfPrior[1]))

\* C21: in the useRef playground, a step that changes the ref value while
\* the playground stays mounted ('Increment Ref') adds 1 to it and leaves
\* the render count, the displayed value and everything on screen as they
\* were; a step that changes the displayed value ('Show Value') makes it,
\* on screen too, equal to the ref value; and the displayed value never
\* exceeds the ref value.
C21_RefClickDoesNotRender ==
  /\ displayedRefValue <= clickCount
  /\ [][/\ (rfMounted /\ rfMounted' /\ clickCount' # clickCount) =>
            /\ clickCount' = clickCount + 1
            /\ rfRenders' = rfRenders
            /\ displayedRefValue' = displayedRefValue
            /\ rfShown' = rfShown
        /\ (rfMounted /\ rfMounted' /\ displayedRefValue' # displayedRefValue) =>
            /\ displayedRefValue' = clickCount
            /\ rfShown'.displayed = clickCount
            /\ clickCount' = clickCount
        /\ displayedRefValue' <= clickCount'
        /\ rfShown'.displayed <= clickCount']_vars

\* the ref was incremented, shown, and incremented again
C21_Witness ==
  /\ rfMounted /\ clickCount = 2 /\ displayedRefValue = 1 /\ rfShown.displayed = 1

\* C22 as stated: a change of the OS preference makes the theme follow the
\* new preference when the storage key is absent, and leaves the theme as it
\* is when the key is present.
C22_SystemChangeAsStated ==
  [][prefersDark' # prefersDark =>
       theme' = IF storage = Absent
                  THEN (IF prefersDark' THEN "dark" ELSE "light")
                  ELSE theme]_vars

\* C22 amended: a change of the OS preference makes the theme follow the new
\* preference when handleChange is attached and the stored value is missing
\* or the empty string; in every other case the theme is left as it is.
C22_SystemChangeFollowsWhenFalsy ==
  [][prefersDark' # prefersDark =>
       theme' = IF listening /\ (storage = Absent \/ storage = "")
                  THEN (IF prefersDark' THEN "dark" ELSE "light")
                  ELSE theme]_vars

\* the OS turned dark while the key held the empty string, and the light
\* theme became dark
C22_Witness ==
  /\ lastChange = [seen |-> TRUE, stored |-> "", attached |-> TRUE, matches |-> TRUE]
  /\ lastBatch = << >> /\ themeBefore = "light" /\ theme = "dark"
  /\ listening /\ effectDue /\ prefersDark

\* C23: once the persistence effect has run, the storage key holds a theme
\* in every later state, restarts included, and from such a state no change
\* of the OS preference changes the theme.
C23_KeyStaysPresent ==
  /\ [](everPersisted => storage \in Themes)
  /\ [][(everPersisted /\ prefersDark' # prefersDark) => theme' = theme]_vars

\* the provider started with no key under a light OS preference, its effect
\* ran, no handler ever set a theme, and the OS then turned dark: the theme
\* is still light
C23_Witness ==
  /\ everPersisted /\ bootStored = Absent /\ ~bootPrefersDark
  /\ lastChange = [seen |-> TRUE, stored |-> "light", attached |-> TRUE, matches |-> TRUE]
  /\ prefersDark /\ theme = "light" /\ storage = "light"
  /\ themeAtExit = "none" /\ themeBefore = "light"

\* C24: in the timer demo, from Reset until the next press of Start/Stop the
\* elapsed seconds are 0, the running flag is false and no interval is live,
\* so no tick can add to the seconds.
C24_ResetHoldsZero ==
  (timerMounted /\ lastClick = "reset") =>
    (seconds = 0 /\ ~isRunning /\ intervals = {})

\* Reset was pressed while the timer was running with seconds elapsed
C24_Witness ==
  /\ timerMounted /\ lastClick = "reset"
  /\ resetFrom.running /\ resetFrom.seconds >= 2
  /\ seconds = 0 /\ ~isRunning

\* C25: under the todo reducer the ids in the list are strictly increasing
\* in list order (so pairwise distinct), nextId is greater than every id in
\* the list and never decreases, and an id that enters the list is one that
\* no todo has had before.
C25_TodoIdsNeverReused ==
  /\ [](/\ \A j, k \in 1 .. Len(todoState.todos) :
              j < k => todoState.todos[j].id < todoState.todos[k].id
        /\ \A k \in 1 .. Len(todoState.todos) : todoState.todos[k].id < todoState.nextId)
  /\ [][/\ todoState'.nextId >= todoState.nextId
        /\ \A id \in TodoIdsOf(todoState') \ TodoIdsOf(todoState) : id \notin usedIds]_vars

\* todos 1 and 2 were deleted or cleared, and later ones were added
C25_Witness ==
  /\ {1, 2} \subseteq usedIds /\ TodoIdsOf(todoState) = {3, 4}
  /\ todoState.nextId = 5 /\ lastAction.type = "ADD"

====
